---------------------------- MODULE Spec2Model ----------------------------
(***************************************************************************)
(* Model of magic_quickstart's core: the zsh history entry parser, the     *)
(* reverse history scan with its cutoff window, the project-file detector  *)
(* and the dotenv key extractor (src/src/parsers.rs and src/src/main.rs).  *)
(*                                                                         *)
(* Text is modelled as a sequence of one-character strings, so that        *)
(* splitting, trimming and integer parsing are computed character by       *)
(* character as the code does.                                             *)
(***************************************************************************)
EXTENDS Integers, Sequences, FiniteSets, TLC

VARIABLES
    \* parse_zsh_history applied to one line
    entry, parsed, ppc,
    \* process_zsh_history
    history_file, cutoff_timestamp, now, pos, command_history, hpc,
    \* find_project_files / find_source_files
    program, markers, src_dir, root_dir, max_files, files_to_include, fpc,
    \* get_env_file_keys
    env_file, epos, keys, epc

parseVars == <<entry, parsed, ppc>>
histVars  == <<history_file, cutoff_timestamp, now, pos, command_history, hpc>>
fileVars  == <<program, markers, src_dir, root_dir, max_files, files_to_include, fpc>>
envVars   == <<env_file, epos, keys, epc>>
vars      == <<parseVars, histVars, fileVars, envVars>>

(***************************************************************************)
(* Bounds of the model.                                                    *)
(***************************************************************************)
MaxEntryLen == 5
MaxLines == 3
MaxClock == 12
MaxSrcEntries == 2
MaxRootEntries == 1
MaxFiles == 2
MaxEnvLines == 4

SeqsUpTo(S, n) == UNION {[1..k -> S] : k \in 0..n}

Min(a, b) == IF a <= b THEN a ELSE b

(***************************************************************************)
(* Text primitives of the standard library, as the code uses them.         *)
(***************************************************************************)
WhiteSpace == {" ", "\t"}

RECURSIVE trim_start(_)
trim_start(s) ==
    IF s = <<>> THEN s
    ELSE IF Head(s) \in WhiteSpace THEN trim_start(Tail(s)) ELSE s

RECURSIVE trim_end(_)
trim_end(s) ==
    IF s = <<>> THEN s
    ELSE IF s[Len(s)] \in WhiteSpace THEN trim_end(SubSeq(s, 1, Len(s) - 1)) ELSE s

\* str::trim
trim(s) == trim_end(trim_start(s))

\* index of the first occurrence of character c in s, 0 when there is none
RECURSIVE find_from(_, _, _)
find_from(s, c, i) ==
    IF i > Len(s) THEN 0
    ELSE IF s[i] = c THEN i ELSE find_from(s, c, i + 1)

find(s, c) == find_from(s, c, 1)

\* str::starts_with(char)
starts_with(s, c) == Len(s) >= 1 /\ s[1] = c

\* str::splitn(n, c) collected: at most n pieces, the last one holds the rest
RECURSIVE splitn(_, _, _)
splitn(n, s, c) ==
    IF n <= 1 \/ find(s, c) = 0 THEN <<s>>
    ELSE <<SubSeq(s, 1, find(s, c) - 1)>>
             \o splitn(n - 1, SubSeq(s, find(s, c) + 1, Len(s)), c)

\* str::split_once(c): the text before and after the first c, or None
split_once(s, c) ==
    IF find(s, c) = 0 THEN [some |-> FALSE, before |-> <<>>, after |-> <<>>]
    ELSE [some |-> TRUE,
          before |-> SubSeq(s, 1, find(s, c) - 1),
          after |-> SubSeq(s, find(s, c) + 1, Len(s))]

Digits == {"0", "1", "2", "3", "4", "5", "6", "7", "8", "9"}

DigitValue(c) ==
    CASE c = "0" -> 0 [] c = "1" -> 1 [] c = "2" -> 2 [] c = "3" -> 3
      [] c = "4" -> 4 [] c = "5" -> 5 [] c = "6" -> 6 [] c = "7" -> 7
      [] c = "8" -> 8 [] c = "9" -> 9

RECURSIVE digits_value(_, _)
digits_value(ds, acc) ==
    IF ds = <<>> THEN acc
    ELSE digits_value(Tail(ds), acc * 10 + DigitValue(Head(ds)))

(***************************************************************************)
(* str::parse::<i64>: an optional sign, then one or more decimal digits.   *)
(* A lone sign and the empty string are errors.  (The overflow error of    *)
(* i64 needs 19 digits and is outside the lengths explored here.)          *)
(***************************************************************************)
parse_i64(s) ==
    LET ds == IF s # <<>> /\ Head(s) \in {"+", "-"} THEN Tail(s) ELSE s
    IN  IF ds = <<>> \/ \E i \in 1..Len(ds) : ds[i] \notin Digits
        THEN [ok |-> FALSE, value |-> 0]
        ELSE [ok |-> TRUE,
              value |-> IF Head(s) = "-" THEN 0 - digits_value(ds, 0)
                        ELSE digits_value(ds, 0)]

(***************************************************************************)
(* parse_zsh_history                                                       *)
(***************************************************************************)
None == [some |-> FALSE, timestamp |-> 0, exit_code |-> <<>>, command |-> <<>>]

Some(t, e, c) == [some |-> TRUE, timestamp |-> t, exit_code |-> e, command |-> c]

\* let parts: Vec<&str> = entry.splitn(3, ':').collect();
HistoryParts(e) == splitn(3, e, ":")

\* command_part.splitn(2, ';'), split on every ';' instead of the first only
CommandPartsSplitAll(command_part) == splitn(Len(command_part) + 1, command_part, ";")

\* let command_parts: Vec<&str> = command_part.splitn(2, ';').collect();
CommandParts(command_part) == splitn(2, command_part, ";")

parse_zsh_history(e) ==
    IF ~starts_with(e, ":") THEN None
    ELSE LET parts == HistoryParts(e) IN
         IF Len(parts) < 3 THEN None
         ELSE LET timestamp_str == trim(parts[2])
                  command_part == parts[3]
                  timestamp == parse_i64(timestamp_str)
              IN  IF ~timestamp.ok THEN None
                  ELSE LET command_parts == CommandParts(command_part) IN
                       IF Len(command_parts) < 2 THEN None
                       ELSE Some(timestamp.value,
                                 trim(command_parts[1]),
                                 trim(command_parts[2]))

(***************************************************************************)
(* Specification SpecParse: parse_zsh_history applied to every line over   *)
(* a small alphabet.                                                       *)
(***************************************************************************)
Alphabet == {":", ";", " ", "1", "-", "x"}

EntryInputs == SeqsUpTo(Alphabet, MaxEntryLen)

IdleParse == entry = <<>> /\ parsed = None /\ ppc = "idle"

IdleHist ==
    /\ history_file = <<>> /\ cutoff_timestamp = 0 /\ now = 0 /\ pos = 0
    /\ command_history = <<>> /\ hpc = "idle"

IdleFiles ==
    /\ program = "none" /\ markers = {} /\ src_dir = [exists |-> FALSE, entries |-> <<>>]
    /\ root_dir = <<>> /\ max_files = 0 /\ files_to_include = <<>> /\ fpc = "idle"

IdleEnv == env_file = <<>> /\ epos = 0 /\ keys = <<>> /\ epc = "idle"

InitParse ==
    /\ entry \in EntryInputs /\ parsed = None /\ ppc = "call"
    /\ IdleHist /\ IdleFiles /\ IdleEnv

\* one call of parse_zsh_history(entry)
Parse ==
    /\ ppc = "call"
    /\ parsed' = parse_zsh_history(entry)
    /\ ppc' = "returned"
    /\ UNCHANGED <<entry, histVars, fileVars, envVars>>

NextParse == Parse

SpecParse == InitParse /\ [][NextParse]_vars


\* The acceptance condition of a history line, stated by character positions.
C2_SecondColon(e) ==
    IF \E j \in 2..Len(e) : e[j] = ":"
    THEN CHOOSE j \in 2..Len(e) : e[j] = ":" /\ \A k \in 2..(j - 1) : e[k] # ":"
    ELSE 0

C2_FirstSemicolonAfter(e, j) ==
    IF \E m \in (j + 1)..Len(e) : e[m] = ";"
    THEN CHOOSE m \in (j + 1)..Len(e) :
            e[m] = ";" /\ \A k \in (j + 1)..(m - 1) : e[k] # ";"
    ELSE 0

C2_IsDecimal(s) ==
    /\ Len(s) >= 1
    /\ \/ \A i \in 1..Len(s) : s[i] \in Digits
       \/ Len(s) >= 2 /\ s[1] \in {"+", "-"} /\ \A i \in 2..Len(s) : s[i] \in Digits

C2_Accepts(e) ==
    /\ Len(e) >= 1 /\ e[1] = ":"
    /\ C2_SecondColon(e) # 0
    /\ C2_IsDecimal(trim(SubSeq(e, 2, C2_SecondColon(e) - 1)))
    /\ C2_FirstSemicolonAfter(e, C2_SecondColon(e)) # 0

C2_Expected(e) ==
    LET j == C2_SecondColon(e)
        m == C2_FirstSemicolonAfter(e, j)
    IN  Some(parse_i64(trim(SubSeq(e, 2, j - 1))).value,
             trim(SubSeq(e, j + 1, m - 1)),
             trim(SubSeq(e, m + 1, Len(e))))

(***************************************************************************)
(* C2: parse_zsh_history accepts a line exactly when it starts with ':',   *)
(* has a second ':', the trimmed text between the two parses as a decimal  *)
(* integer, and a ';' follows the second ':'; the result is then           *)
(* (ts, f trimmed, cmd trimmed) with f the text up to the first ';' after  *)
(* the second ':' and cmd everything after that ';'.  Every other line is  *)
(* rejected.                                                               *)
(***************************************************************************)
C2_ParserContract ==
    ppc = "returned" =>
        parsed = IF C2_Accepts(entry) THEN C2_Expected(entry) ELSE None

\* an accepted line whose command keeps a later ';' or ':'
C2_Witness ==
    /\ ppc = "returned" /\ parsed.some
    /\ \E i \in 1..Len(parsed.command) : parsed.command[i] \in {";", ":"}

(***************************************************************************)
(* process_zsh_history                                                     *)
(***************************************************************************)
Ok(text) == [ok |-> TRUE, line |-> text]

Err == [ok |-> FALSE, line |-> <<>>]

\* The lines a history file may hold: Err is a line that is not valid UTF-8.
HistoryLinePool ==
    { Ok(<<":", "9", ":", "0", ";", "p", "w", "d">>),
      Ok(<<":", "1", "0", ":", "0", ";", "l", "s">>),
      Ok(<<":", "1", "1", ":", "0", ";", " ", "e", "c", "h", "o", " ", "h", "i">>),
      Ok(<<":", " ", "1", "2", " ", ":", "1", ";", "a", ";", "b", ":", "c">>),
      Ok(<<"l", "s", " ", "-", "l">>),
      Ok(<<":", "1", "x", ":", "0", ";", "l", "s">>),
      Err }

Cutoffs == {10, 11, 12}

ClockReadings == 11..MaxClock

\* RevLines::new(file) as an iterator: the line it yields after `yielded` lines,
\* the last line of the file first
RevLinesNext(file, yielded) == file[Len(file) - yielded]

\* days since 1970-01-01 to (year, month, day) of the proleptic Gregorian calendar
civil_from_days(z) ==
    LET zz  == z + 719468
        era == zz \div 146097
        doe == zz - era * 146097
        yoe == (doe - doe \div 1460 + doe \div 36524 - doe \div 146096) \div 365
        doy == doe - (365 * yoe + yoe \div 4 - yoe \div 100)
        mp  == (5 * doy + 2) \div 153
        d   == doy - (153 * mp + 2) \div 5 + 1
        m   == IF mp < 10 THEN mp + 3 ELSE mp - 9
        y   == yoe + era * 400
    IN  <<IF m <= 2 THEN y + 1 ELSE y, m, d>>

\* Utc.timestamp_opt(timestamp, 0) formatted as "%Y-%m-%d %H:%M:%S"
command_time(timestamp) ==
    [date |-> civil_from_days(timestamp \div 86400),
     time |-> <<(timestamp % 86400) \div 3600, (timestamp % 3600) \div 60, timestamp % 60>>]

\* humantime::format_duration of a whole number of seconds: the non-zero components
format_duration(secs) ==
    LET years   == secs \div 31557600
        ydays   == secs % 31557600
        months  == ydays \div 2630016
        mdays   == ydays % 2630016
        days    == mdays \div 86400
        daysecs == mdays % 86400
        item(n, unit) == IF n > 0 THEN <<[n |-> n, unit |-> unit]>> ELSE <<>>
    IN  IF secs = 0 THEN <<[n |-> 0, unit |-> "s"]>>
        ELSE item(years, "year") \o item(months, "month") \o item(days, "day")
               \o item(daysecs \div 3600, "h") \o item((daysecs % 3600) \div 60, "m")
               \o item(daysecs % 60, "s")

\* if timestamp >= cutoff_timestamp, with the comparison made strict
InWindowStrict(timestamp, cutoff) == timestamp > cutoff

\* if timestamp >= cutoff_timestamp
InWindow(timestamp, cutoff) == timestamp >= cutoff

\* the json!({...}) record pushed for an accepted line
CommandRecord(p, elapsed_secs) ==
    [timestamp |-> command_time(p.timestamp),
     relative_time |-> format_duration(elapsed_secs),
     exit_code |-> p.exit_code,
     command |-> p.command]

InitHistory ==
    /\ history_file \in SeqsUpTo(HistoryLinePool, MaxLines)
    /\ cutoff_timestamp \in Cutoffs
    /\ now \in ClockReadings
    /\ pos = 0
    /\ command_history = <<>>
    /\ hpc = "SCANNING"
    /\ IdleParse /\ IdleFiles /\ IdleEnv

\* the line the iterator yields next
Cur == RevLinesNext(history_file, pos)

\* for line_result in rev_lines: the loop is running and a line is left
Scanning == hpc = "SCANNING" /\ pos < Len(history_file)

\* Ok(line), parsed, in the window, Utc::now() not before the timestamp: push the record
AcceptLine ==
    /\ Scanning /\ Cur.ok
    /\ LET p == parse_zsh_history(Cur.line) IN
       /\ p.some /\ InWindow(p.timestamp, cutoff_timestamp)
       /\ \E t \in now..MaxClock :
            /\ t - p.timestamp >= 0
            /\ now' = t
            /\ command_history' = Append(command_history, CommandRecord(p, t - p.timestamp))
    /\ pos' = pos + 1
    /\ UNCHANGED <<history_file, cutoff_timestamp, hpc, parseVars, fileVars, envVars>>

\* Ok(line), parsed, in the window, but Utc::now() is before the timestamp:
\* relative_duration.to_std() is Err and unwrap() panics
PanicOnFutureTimestamp ==
    /\ Scanning /\ Cur.ok
    /\ LET p == parse_zsh_history(Cur.line) IN
       /\ p.some /\ InWindow(p.timestamp, cutoff_timestamp)
       /\ \E t \in now..MaxClock :
            /\ t - p.timestamp < 0
            /\ now' = t
    /\ pos' = pos + 1
    /\ hpc' = "PANICKED"
    /\ UNCHANGED <<history_file, cutoff_timestamp, command_history, parseVars, fileVars, envVars>>

\* Ok(line), parsed, timestamp below the cutoff: nothing is pushed, the loop goes on
SkipBelowCutoff ==
    /\ Scanning /\ Cur.ok
    /\ LET p == parse_zsh_history(Cur.line) IN
       p.some /\ ~InWindow(p.timestamp, cutoff_timestamp)
    /\ pos' = pos + 1
    /\ UNCHANGED <<history_file, cutoff_timestamp, now, command_history, hpc,
                   parseVars, fileVars, envVars>>

\* Ok(line) that parse_zsh_history rejects: break
BreakOnRejected ==
    /\ Scanning /\ Cur.ok
    /\ ~parse_zsh_history(Cur.line).some
    /\ pos' = pos + 1
    /\ hpc' = "STOPPED"
    /\ UNCHANGED <<history_file, cutoff_timestamp, now, command_history,
                   parseVars, fileVars, envVars>>

\* Err(_): "Skipping invalid UTF-8 sequence", the loop goes on
SkipUndecodable ==
    /\ Scanning /\ ~Cur.ok
    /\ pos' = pos + 1
    /\ UNCHANGED <<history_file, cutoff_timestamp, now, command_history, hpc,
                   parseVars, fileVars, envVars>>

\* the iterator is exhausted: the loop ends and command_history is returned
ReturnAtEnd ==
    /\ hpc = "SCANNING" /\ pos = Len(history_file)
    /\ hpc' = "STOPPED"
    /\ UNCHANGED <<history_file, cutoff_timestamp, now, pos, command_history,
                   parseVars, fileVars, envVars>>

NextHistory ==
    \/ AcceptLine
    \/ PanicOnFutureTimestamp
    \/ SkipBelowCutoff
    \/ BreakOnRejected
    \/ SkipUndecodable
    \/ ReturnAtEnd

SpecHistory == InitHistory /\ [][NextHistory]_vars

\* the loop runs to completion: a single-threaded, synchronous scan
FairSpecHistory == SpecHistory /\ WF_vars(NextHistory)

(***************************************************************************)
(* The scan seen from outside: line i in scan order (most recent first),   *)
(* whether it is well-formed, and what identifies the record made from it. *)
(***************************************************************************)
ScanLine(i) == history_file[Len(history_file) - i + 1]

WellFormed(i) == ScanLine(i).ok /\ parse_zsh_history(ScanLine(i).line).some

Rejected(i) == ScanLine(i).ok /\ ~parse_zsh_history(ScanLine(i).line).some

TimestampOf(i) == parse_zsh_history(ScanLine(i).line).timestamp

LineKey(i) ==
    LET p == parse_zsh_history(ScanLine(i).line)
    IN  <<command_time(p.timestamp), p.exit_code, p.command>>

RecordKey(r) == <<r.timestamp, r.exit_code, r.command>>

RECURSIVE InWindowKeys(_, _)
\* the keys of the well-formed lines 1..n with timestamp >= cutoff, in scan order
InWindowKeys(n, cutoff) ==
    IF n = 0 THEN <<>>
    ELSE InWindowKeys(n - 1, cutoff)
           \o (IF WellFormed(n) /\ TimestampOf(n) >= cutoff THEN <<LineKey(n)>> ELSE <<>>)

RecordKeys(records) == [k \in 1..Len(records) |-> RecordKey(records[k])]

FirstRejected ==
    IF \E i \in 1..Len(history_file) : Rejected(i)
    THEN CHOOSE i \in 1..Len(history_file) :
            Rejected(i) /\ \A k \in 1..(i - 1) : ~Rejected(k)
    ELSE 0

(***************************************************************************)
(* C1: when line N (in scan order) is the first line parse_zsh_history     *)
(* rejects, process_zsh_history returns exactly the records of the lines   *)
(* 1..N-1 with timestamp >= cutoff, in scan order, and nothing from the    *)
(* lines after N.  Stated of every call that has ended: it has returned,   *)
(* and what it returned is that sequence.                                  *)
(***************************************************************************)
C1_StopAtFirstRejected ==
    (hpc \in {"STOPPED", "PANICKED"} /\ FirstRejected # 0) =>
        /\ hpc = "STOPPED"
        /\ RecordKeys(command_history) = InWindowKeys(FirstRejected - 1, cutoff_timestamp)

\* C1 restricted to the calls that return: the part of C1 the code satisfies
C1_WhenReturned ==
    (hpc = "STOPPED" /\ FirstRejected # 0) =>
        RecordKeys(command_history) = InWindowKeys(FirstRejected - 1, cutoff_timestamp)

(***************************************************************************)
(* C3: at every point of the scan, every record of the accumulated output  *)
(* comes from a scanned well-formed line with timestamp >= cutoff; while   *)
(* the scan runs and when it has returned, a scanned well-formed line      *)
(* whose timestamp equals the cutoff is in the output; and a line whose    *)
(* timestamp is cutoff - 1 never is.                                       *)
(***************************************************************************)
C3_WindowInvariant ==
    /\ \A k \in 1..Len(command_history) :
          \E i \in 1..pos :
             /\ WellFormed(i) /\ TimestampOf(i) >= cutoff_timestamp
             /\ RecordKey(command_history[k]) = LineKey(i)
    /\ hpc \in {"SCANNING", "STOPPED"} =>
          \A i \in 1..pos :
             (WellFormed(i) /\ TimestampOf(i) = cutoff_timestamp) =>
                \E k \in 1..Len(command_history) :
                   RecordKey(command_history[k]) = LineKey(i)
    /\ \A i \in 1..pos :
          (WellFormed(i) /\ TimestampOf(i) = cutoff_timestamp - 1) =>
             \A k \in 1..Len(command_history) :
                RecordKey(command_history[k]) # LineKey(i)

\* a line at the cutoff and a line one second below it have both been scanned
C3_Witness ==
    /\ hpc \in {"SCANNING", "STOPPED"}
    /\ \E i, j \in 1..pos :
          /\ WellFormed(i) /\ TimestampOf(i) = cutoff_timestamp
          /\ WellFormed(j) /\ TimestampOf(j) = cutoff_timestamp - 1
    /\ Len(command_history) >= 1

\* one step of the SCANNING/STOPPED machine of the history scan
C8_Step ==
    /\ hpc \in {"SCANNING", "STOPPED"}
    /\ hpc' \in {"SCANNING", "STOPPED"}
    /\ hpc = "STOPPED" => (hpc' = "STOPPED" /\ command_history' = command_history)
    /\ (Scanning /\ WellFormed(pos + 1) /\ TimestampOf(pos + 1) >= cutoff_timestamp) =>
          /\ hpc' = "SCANNING"
          /\ Len(command_history') = Len(command_history) + 1
          /\ SubSeq(command_history', 1, Len(command_history)) = command_history
          /\ RecordKey(command_history'[Len(command_history')]) = LineKey(pos + 1)
    /\ (Scanning /\ WellFormed(pos + 1) /\ TimestampOf(pos + 1) < cutoff_timestamp) =>
          (hpc' = "SCANNING" /\ command_history' = command_history)
    /\ (Scanning /\ ~ScanLine(pos + 1).ok) =>
          (hpc' = "SCANNING" /\ command_history' = command_history)
    /\ (hpc = "SCANNING" /\ hpc' = "STOPPED") =>
          (pos = Len(history_file) \/ Rejected(pos + 1))

(***************************************************************************)
(* C8: the scan is a two-state machine SCANNING/STOPPED.  In SCANNING an   *)
(* accepted in-window line is appended and the scan stays in SCANNING; a   *)
(* below-cutoff line and an undecodable line leave the output unchanged    *)
(* and the scan in SCANNING; the scan enters STOPPED only on a rejected    *)
(* line or at the end of the input; STOPPED is terminal; and every scan    *)
(* eventually reaches STOPPED.                                             *)
(***************************************************************************)
C8_TwoStateMachine == [][C8_Step]_vars /\ <>(hpc = "STOPPED")

(***************************************************************************)
(* C10: every well-formed line with timestamp >= cutoff scanned before the *)
(* first rejected line makes the scan append exactly one record and go on  *)
(* scanning, whatever the timestamp, a timestamp later than the current    *)
(* time included: the scan does not abort.                                 *)
(***************************************************************************)
C10_InWindowLineAppends ==
    [][ (Scanning /\ WellFormed(pos + 1) /\ TimestampOf(pos + 1) >= cutoff_timestamp) =>
           /\ hpc' # "PANICKED"
           /\ command_history' =
                 Append(command_history,
                        CommandRecord(parse_zsh_history(ScanLine(pos + 1).line),
                                      now' - TimestampOf(pos + 1))) ]_vars

(***************************************************************************)
(* The working directory, as find_project_files and find_source_files see  *)
(* it: which marker files exist, the listing of src/ (when it is a         *)
(* readable directory) and the listing of the root besides the markers and *)
(* src.  A listing is a sequence: read_dir's order is the file system's.   *)
(***************************************************************************)
Name(stem, ext) == [stem |-> stem, ext |-> ext]

File(stem, ext) == [name |-> Name(stem, ext), is_dir |-> FALSE, children |-> <<>>]

\* a subdirectory holding one file of the given extension
Dir(stem, ext, inner) ==
    [name |-> Name(stem, ext), is_dir |-> TRUE, children |-> <<File("inner", inner)>>]

Stems == <<"a", "b", "c", "d", "e">>

SrcKinds == {"rs", "py", "js", "ts", "dir.rs"}

RootKinds == {"go", "rs"}

EntryOf(stem, kind) ==
    IF kind = "dir.rs" THEN Dir(stem, "rs", "rs") ELSE File(stem, kind)

Listings(kinds, n) ==
    UNION {{[i \in 1..k |-> EntryOf(Stems[i], f[i])] : f \in [1..k -> kinds]} : k \in 0..n}

CargoToml == Name("Cargo", "toml")
PyprojectToml == Name("pyproject", "toml")
PackageJson == Name("package", "json")
GoMod == Name("go", "mod")
Src == Name("src", "")

MarkerFiles == {CargoToml, PyprojectToml, PackageJson, GoMod}

\* fs::read_dir(&current_dir.join("src")): Err when src is missing or not a directory
SrcDirectory == [readable |-> src_dir.exists, entries |-> src_dir.entries, path |-> <<Src>>]

\* fs::read_dir(&current_dir)
RootDirectory == [readable |-> TRUE, entries |-> root_dir, path |-> <<>>]

\* path.extension().and_then(|ext| ext.to_str()): "" stands for None
extension(name) == name.ext

\* if found_files.len() >= max_files, with the comparison made strict
CapReachedStrict(found_files, max) == Len(found_files) > max

\* if found_files.len() >= max_files { break; }
CapReached(found_files, max) == Len(found_files) >= max

RECURSIVE find_loop(_, _, _, _, _)
\* for entry in entries.flatten() { ... }
find_loop(directory, i, found_files, ext, max) ==
    IF i > Len(directory.entries) THEN found_files
    ELSE IF extension(directory.entries[i].name) = ext
         THEN LET relative_path == Append(directory.path, directory.entries[i].name)
                  pushed == Append(found_files, relative_path)
              IN  IF CapReached(pushed, max) THEN pushed
                  ELSE find_loop(directory, i + 1, pushed, ext, max)
         ELSE find_loop(directory, i + 1, found_files, ext, max)

find_source_files(directory, ext, max) ==
    IF directory.readable THEN find_loop(directory, 1, <<>>, ext, max) ELSE <<>>

InitDirectory ==
    /\ markers \in SUBSET MarkerFiles
    /\ src_dir \in {[exists |-> FALSE, entries |-> <<>>]}
                     \cup {[exists |-> TRUE, entries |-> l] : l \in Listings(SrcKinds, MaxSrcEntries)}
    /\ root_dir \in Listings(RootKinds, MaxRootEntries)
    /\ max_files \in 0..MaxFiles
    /\ files_to_include = <<>>
    /\ fpc = "Cargo.toml"

\* parsers.rs: find_project_files with the four marker checks
InitFiles ==
    /\ program = "parsers.rs"
    /\ InitDirectory
    /\ IdleParse /\ IdleHist /\ IdleEnv

\* main.rs: the find_project_files that main() calls
InitMainFiles ==
    /\ program = "main.rs"
    /\ InitDirectory
    /\ IdleParse /\ IdleHist /\ IdleEnv

\* // Check for Rust project files.
CheckCargoToml ==
    /\ fpc = "Cargo.toml"
    /\ files_to_include' =
          IF CargoToml \in markers
          THEN Append(files_to_include, <<CargoToml>>)
                  \o find_source_files(SrcDirectory, "rs", max_files)
          ELSE files_to_include
    /\ fpc' = "pyproject.toml"
    /\ UNCHANGED <<program, markers, src_dir, root_dir, max_files, parseVars, histVars, envVars>>

\* // Check for Python project files.  In main.rs the function returns after it.
CheckPyprojectToml ==
    /\ fpc = "pyproject.toml"
    /\ files_to_include' =
          IF PyprojectToml \in markers
          THEN Append(files_to_include, <<PyprojectToml>>)
                  \o find_source_files(SrcDirectory, "py", max_files)
          ELSE files_to_include
    /\ fpc' = IF program = "parsers.rs" THEN "package.json" ELSE "done"
    /\ UNCHANGED <<program, markers, src_dir, root_dir, max_files, parseVars, histVars, envVars>>

\* // Check for Node.js project files.
CheckPackageJson ==
    /\ fpc = "package.json"
    /\ files_to_include' =
          IF PackageJson \in markers
          THEN Append(files_to_include, <<PackageJson>>)
                  \o find_source_files(SrcDirectory, "js", max_files)
                  \o find_source_files(SrcDirectory, "ts", max_files)
          ELSE files_to_include
    /\ fpc' = "go.mod"
    /\ UNCHANGED <<program, markers, src_dir, root_dir, max_files, parseVars, histVars, envVars>>

\* // Check for Go project files.
CheckGoMod ==
    /\ fpc = "go.mod"
    /\ files_to_include' =
          IF GoMod \in markers
          THEN Append(files_to_include, <<GoMod>>)
                  \o find_source_files(RootDirectory, "go", max_files)
          ELSE files_to_include
    /\ fpc' = "done"
    /\ UNCHANGED <<program, markers, src_dir, root_dir, max_files, parseVars, histVars, envVars>>

NextFiles == CheckCargoToml \/ CheckPyprojectToml \/ CheckPackageJson \/ CheckGoMod

NextMainFiles == CheckCargoToml \/ CheckPyprojectToml

SpecFiles == InitFiles /\ [][NextFiles]_vars

SpecMainFiles == InitMainFiles /\ [][NextMainFiles]_vars

(***************************************************************************)
(* The detector seen from outside: the table of ecosystems (marker, then   *)
(* the lookups made for it), the entries of a directory that carry an      *)
(* extension, and what a returned path denotes in the directory tree.      *)
(***************************************************************************)
Lookup(dir, ext) == [dir |-> dir, ext |-> ext]

Ecosystems ==
    << [marker |-> CargoToml,     lookups |-> <<Lookup("src", "rs")>>],
       [marker |-> PyprojectToml, lookups |-> <<Lookup("src", "py")>>],
       [marker |-> PackageJson,   lookups |-> <<Lookup("src", "js"), Lookup("src", "ts")>>],
       [marker |-> GoMod,         lookups |-> <<Lookup("root", "go")>>] >>

DirOf(dir) == IF dir = "src" THEN SrcDirectory ELSE RootDirectory

\* the number of entries of the directory whose name has the extension
Count(dir, ext) ==
    IF DirOf(dir).readable
    THEN Cardinality({i \in 1..Len(DirOf(dir).entries) : DirOf(dir).entries[i].name.ext = ext})
    ELSE 0

Repeat(x, n) == [i \in 1..n |-> x]

RECURSIVE LookupSlots(_, _)
LookupSlots(lookups, k) ==
    IF k > Len(lookups) THEN <<>>
    ELSE Repeat([marker |-> FALSE, name |-> Src, lookup |-> lookups[k]],
                Min(max_files, Count(lookups[k].dir, lookups[k].ext)))
           \o LookupSlots(lookups, k + 1)

RECURSIVE Slots(_)
\* what each position of the result must hold: a marker, or a file of one lookup
Slots(k) ==
    IF k > Len(Ecosystems) THEN <<>>
    ELSE (IF Ecosystems[k].marker \in markers
          THEN <<[marker |-> TRUE, name |-> Ecosystems[k].marker, lookup |-> Lookup("", "")]>>
                  \o LookupSlots(Ecosystems[k].lookups, 1)
          ELSE <<>>)
           \o Slots(k + 1)

IsEntryPath(path, dir) ==
    /\ Len(path) = Len(DirOf(dir).path) + 1
    /\ SubSeq(path, 1, Len(path) - 1) = DirOf(dir).path
    /\ \E i \in 1..Len(DirOf(dir).entries) : DirOf(dir).entries[i].name = path[Len(path)]

Fills(path, slot) ==
    IF slot.marker THEN path = <<slot.name>>
    ELSE IsEntryPath(path, slot.lookup.dir) /\ path[Len(path)].ext = slot.lookup.ext

IsMarkerPath(path) == Len(path) = 1 /\ path[1] \in MarkerFiles

RECURSIVE PresentMarkers(_)
\* the paths of the markers that exist, in marker-check order
PresentMarkers(k) ==
    IF k > Len(Ecosystems) THEN <<>>
    ELSE (IF Ecosystems[k].marker \in markers THEN <<<<Ecosystems[k].marker>>>> ELSE <<>>)
           \o PresentMarkers(k + 1)

\* the path names a directory of the tree
IsDirectory(path) ==
    \E dir \in {"src", "root"} :
       /\ DirOf(dir).readable
       /\ Len(path) = Len(DirOf(dir).path) + 1
       /\ SubSeq(path, 1, Len(path) - 1) = DirOf(dir).path
       /\ \E i \in 1..Len(DirOf(dir).entries) :
             DirOf(dir).entries[i].name = path[Len(path)] /\ DirOf(dir).entries[i].is_dir

(***************************************************************************)
(* C4: with max_files >= 1, each extension lookup contributes exactly      *)
(* min(max_files, number of entries with the extension) paths, all entries *)
(* of the scanned directory with that extension and all different; the cap *)
(* is applied per lookup; and every marker that exists is in the result,   *)
(* right before its ecosystem's source files.                              *)
(***************************************************************************)
C4_CapPerLookup ==
    (fpc = "done" /\ max_files >= 1) =>
        /\ Len(files_to_include) = Len(Slots(1))
        /\ \A i \in 1..Len(Slots(1)) : Fills(files_to_include[i], Slots(1)[i])
        /\ \A i, j \in 1..Len(Slots(1)) :
              (i # j /\ Slots(1)[i] = Slots(1)[j]) => files_to_include[i] # files_to_include[j]

\* the cap cuts the .rs lookup (2 entries, cap 1) and the .go lookup still returns a file
C4_Witness ==
    /\ fpc = "done" /\ max_files = 1
    /\ {CargoToml, GoMod} \subseteq markers
    /\ Count("src", "rs") = 2 /\ Count("root", "go") = 1
    /\ Len(files_to_include) >= 4

(***************************************************************************)
(* C5: with max_files = 0 the result holds the markers that exist and no   *)
(* source file, whatever the directories hold; and when src/ is missing or *)
(* unreadable no path below src/ is in the result.                         *)
(***************************************************************************)
C5_ZeroCapMarkersOnly ==
    /\ (fpc = "done" /\ max_files = 0) => files_to_include = PresentMarkers(1)
    /\ (fpc = "done" /\ ~src_dir.exists) =>
          \A i \in 1..Len(files_to_include) : files_to_include[i][1] # Src

\* the position of the marker path that precedes position i of the result
C6_OwnerOf(i) ==
    CHOOSE k \in 1..i :
       IsMarkerPath(files_to_include[k])
          /\ \A j \in (k + 1)..i : ~IsMarkerPath(files_to_include[j])

(***************************************************************************)
(* C6: the detector the program runs checks the four markers in the order  *)
(* Cargo.toml, pyproject.toml, package.json, go.mod: the marker paths of   *)
(* the result are the markers that exist, in that order, and every source  *)
(* path of the result follows its own ecosystem's marker and has one of    *)
(* that ecosystem's extensions.                                            *)
(***************************************************************************)
C6_AllFourEcosystems ==
    fpc = "done" =>
        /\ SelectSeq(files_to_include, IsMarkerPath) = PresentMarkers(1)
        /\ \A i \in 1..Len(files_to_include) :
              ~IsMarkerPath(files_to_include[i]) =>
                 \E k \in 1..Len(Ecosystems) :
                    /\ <<Ecosystems[k].marker>> = files_to_include[C6_OwnerOf(i)]
                    /\ \E l \in 1..Len(Ecosystems[k].lookups) :
                          files_to_include[i][Len(files_to_include[i])].ext
                             = Ecosystems[k].lookups[l].ext

(***************************************************************************)
(* C9: no path returned by an extension lookup is a directory, whatever    *)
(* its name, and no returned path lies below a subdirectory of the scanned *)
(* directory.                                                              *)
(***************************************************************************)
C9_NoDirectoryReturned ==
    fpc = "done" =>
        \A i \in 1..Len(files_to_include) :
           \/ IsMarkerPath(files_to_include[i])
           \/ /\ ~IsDirectory(files_to_include[i])
              /\ IsEntryPath(files_to_include[i], "src") \/ IsEntryPath(files_to_include[i], "root")

\* C9, second half alone: nothing below a subdirectory is returned
C9_NoRecursion ==
    fpc = "done" =>
        \A i \in 1..Len(files_to_include) :
           \/ IsMarkerPath(files_to_include[i])
           \/ IsEntryPath(files_to_include[i], "src")
           \/ IsEntryPath(files_to_include[i], "root")

(***************************************************************************)
(* get_env_file_keys                                                       *)
(***************************************************************************)
\* The lines a dotenv file may hold: Err is a line the reader fails to decode.
EnvLinePool ==
    { Ok(<<"A", "=", "1">>),
      Ok(<<"F", "O", "O", "=", "b", "a", "r", "=", "b", "a", "z">>),
      Ok(<<"#", " ", "c", "o", "m", "m", "e", "n", "t">>),
      Ok(<<"N", "O", "V", "A", "L", "U", "E">>),
      Ok(<<" ", "K", " ", "=", " ", "v">>),
      Ok(<<>>),
      Err }

InitEnv ==
    /\ env_file \in SeqsUpTo(EnvLinePool, MaxEnvLines)
    /\ epos = 0
    /\ keys = <<>>
    /\ epc = "READING"
    /\ IdleParse /\ IdleHist /\ IdleFiles

\* reader.lines(): the next item of the iterator
EnvLine == env_file[epos + 1]

Reading == epc = "READING" /\ epos < Len(env_file)

\* if let Some((key, _)) = line.split_once('=') { keys.push(key.trim().to_string()); }
PushKey ==
    /\ Reading /\ EnvLine.ok
    /\ split_once(EnvLine.line, "=").some
    /\ keys' = Append(keys, trim(split_once(EnvLine.line, "=").before))
    /\ epos' = epos + 1
    /\ UNCHANGED <<env_file, epc, parseVars, histVars, fileVars>>

\* a line without '=': nothing is pushed
SkipLineWithoutEquals ==
    /\ Reading /\ EnvLine.ok
    /\ ~split_once(EnvLine.line, "=").some
    /\ epos' = epos + 1
    /\ UNCHANGED <<env_file, keys, epc, parseVars, histVars, fileVars>>

\* .map_while(Result::ok): the first Err ends the iteration
StopAtReadError ==
    /\ Reading /\ ~EnvLine.ok
    /\ epos' = epos + 1
    /\ epc' = "RETURNED"
    /\ UNCHANGED <<env_file, keys, parseVars, histVars, fileVars>>

\* the end of the file: keys is returned
ReturnAtEndOfFile ==
    /\ epc = "READING" /\ epos = Len(env_file)
    /\ epc' = "RETURNED"
    /\ UNCHANGED <<env_file, epos, keys, parseVars, histVars, fileVars>>

NextEnv == PushKey \/ SkipLineWithoutEquals \/ StopAtReadError \/ ReturnAtEndOfFile

SpecEnv == InitEnv /\ [][NextEnv]_vars

HasEquals(l) == l.ok /\ \E i \in 1..Len(l.line) : l.line[i] = "="

KeyOf(l) ==
    LET i == CHOOSE i \in 1..Len(l.line) :
                l.line[i] = "=" /\ \A k \in 1..(i - 1) : l.line[k] # "="
    IN  trim(SubSeq(l.line, 1, i - 1))

RECURSIVE KeysOfLines(_, _)
\* one key per line of lines 1..n that contains '=', in file order
KeysOfLines(file, n) ==
    IF n = 0 THEN <<>>
    ELSE KeysOfLines(file, n - 1) \o (IF HasEquals(file[n]) THEN <<KeyOf(file[n])>> ELSE <<>>)

FirstReadError ==
    IF \E i \in 1..Len(env_file) : ~env_file[i].ok
    THEN CHOOSE i \in 1..Len(env_file) :
            ~env_file[i].ok /\ \A k \in 1..(i - 1) : env_file[k].ok
    ELSE Len(env_file) + 1

(***************************************************************************)
(* C7: get_env_file_keys returns, in file order, exactly one key per line  *)
(* of the file that contains '=': the trimmed text before the line's first *)
(* '='; the other lines contribute nothing.                                *)
(***************************************************************************)
C7_OneKeyPerEqualsLine ==
    epc = "RETURNED" => keys = KeysOfLines(env_file, Len(env_file))

\* C7 for the lines before the first line that fails to decode
C7_UpToFirstReadError ==
    epc = "RETURNED" => keys = KeysOfLines(env_file, FirstReadError - 1)

=============================================================================
